---- MODULE Spec2Model ----
(***************************************************************************)
(* take_over (gittip/elsewhere/take_over.py): merging one participant      *)
(* into another.  The tables participants, elsewhere and tips are sets of  *)
(* rows and absorptions is the sequence of its rows in insertion order;    *)
(* one call of take_over is one transaction and one step of the model.     *)
(* The variable call records the last call: its arguments, the facts it    *)
(* computed, the rows each statement inserted and the store before it.     *)
(* Spec takes the calls one after another from a sane store, SpecCorrupted *)
(* from a store that breaks the one-account-per-platform rule.  SpecRace   *)
(* runs the calls on one account statement by statement, so that two may   *)
(* overlap: cursors holds each call's position, facts and uncommitted      *)
(* writes, commits the order in which calls committed.                     *)
(***************************************************************************)
EXTENDS Integers, Sequences, FiniteSets, TLC

\* ------------------------------------------------------------------ bounds
MaxCalls == 2
MaxTips == 2
MaxAmount == 1
MaxTries == 2
MaxCursors == 2

\* ------------------------------------------------------- usernames, lower()
\* A username is a tuple of characters.
NoName == << >>

LowerChar(ch) ==
    CASE ch = "A" -> "a"
      [] ch = "B" -> "b"
      [] ch = "C" -> "c"
      [] ch = "D" -> "d"
      [] OTHER -> ch

\* unicode.lower(): character by character.
lower(name) == [i \in DOMAIN name |-> LowerChar(name[i])]

InitialUsernames == { <<"a">>, <<"B">>, <<"c">> }

\* What the random username generator can yield: any text at all, a taken
\* username included.
RandomUsernames == { <<"b">>, <<"d">>, <<"e">> }

Platforms == { "github", "twitter" }
Accounts ==
    { [platform |-> "github", user_id |-> "1"],
      [platform |-> "github", user_id |-> "2"],
      [platform |-> "twitter", user_id |-> "1"] }

VARIABLES participants, elsewhere, tips, absorptions, call, ncalls,
          cursors, commits

vars == << participants, elsewhere, tips, absorptions, call, ncalls,
           cursors, commits >>

\* -------------------------------------------------------------- aggregates
RECURSIVE SumAmount(_)
SumAmount(rows) ==
    IF rows = {} THEN 0
    ELSE LET r == CHOOSE r \in rows : TRUE
         IN r.amount + SumAmount(rows \ {r})

MinOf(S) == CHOOSE m \in S : \A n \in S : m <= n
MaxOf(S) == CHOOSE m \in S : \A n \in S : m >= n

\* mtime of the rows an INSERT adds: later than every row of the table.
Stamp(t) == IF t = {} THEN 1 ELSE MaxOf({ r.mtime : r \in t }) + 1

\* One row for every key of g, taken from the rows g offers for that key:
\* what DISTINCT ON may keep when the ordering leaves the choice open.
RECURSIVE OnePerKey(_)
OnePerKey(g) ==
    IF DOMAIN g = {} THEN { {} }
    ELSE LET k == CHOOSE k \in DOMAIN g : TRUE
             rest == [j \in (DOMAIN g) \ {k} |-> g[j]]
         IN { {r} \cup s : r \in g[k], s \in OnePerKey(rest) }

\* ------------------------------------------------------------- NeedConfirmation
\* A confirmation policy that also asks when only B holds.
NeedConfirmation_AnyFact(a, b, c) == a \/ b \/ c

\* NeedConfirmation.__nonzero__: bool(need_confirmation)
NeedConfirmation(a, b, c) == a \/ c

\* ------------------------------------------------------------ SQL statements
\* SELECT DISTINCT ON (tipper, tippee) ... ORDER BY tipper, tippee, mtime DESC
unique_tips(t) ==
    LET pairs == { <<r.tipper, r.tippee>> : r \in t }
        latest == [p \in pairs |->
                     { r \in t : /\ r.tipper = p[1]
                                 /\ r.tippee = p[2]
                                 /\ \A s \in t :
                                        (s.tipper = p[1] /\ s.tippee = p[2])
                                            => s.mtime <= r.mtime }]
    IN OnePerKey(latest)

\* A consolidation that forgets the tips to the absorbed participant.
CONSOLIDATE_TIPS_RECEIVING_OwnOnly(t, ut, p1, p2, p3, p4, p5, p6) ==
    LET sel == { r \in ut : /\ r.tippee = p2
                            /\ ~(r.tipper = p4 /\ r.tippee = p5)
                            /\ ~(r.tipper = p6) }
        group(tipper) == { r \in sel : r.tipper = tipper }
    IN { [ctime |-> MinOf({ r.ctime : r \in group(tipper) }),
          mtime |-> Stamp(t),
          tipper |-> tipper,
          tippee |-> p1,
          amount |-> SumAmount(group(tipper))] : tipper \in { r.tipper : r \in sel } }

\* The rows CONSOLIDATE_TIPS_RECEIVING inserts; ut is the subquery's result
\* and p1..p6 are the statement's six parameters in order.
CONSOLIDATE_TIPS_RECEIVING(t, ut, p1, p2, p3, p4, p5, p6) ==
    LET sel == { r \in ut : /\ (r.tippee = p2 \/ r.tippee = p3)
                            /\ ~(r.tipper = p4 /\ r.tippee = p5)
                            /\ ~(r.tipper = p6) }
        group(tipper) == { r \in sel : r.tipper = tipper }
    IN { [ctime |-> MinOf({ r.ctime : r \in group(tipper) }),
          mtime |-> Stamp(t),
          tipper |-> tipper,
          tippee |-> p1,
          amount |-> SumAmount(group(tipper))] : tipper \in { r.tipper : r \in sel } }

\* A consolidation that dates the new tip by the newer of the two.
CONSOLIDATE_TIPS_GIVING_NewerCtime(t, ut, p1, p2, p3, p4, p5, p6) ==
    LET sel == { r \in ut : /\ (r.tipper = p2 \/ r.tipper = p3)
                            /\ ~(r.tipper = p4 /\ r.tippee = p5)
                            /\ ~(r.tippee = p6) }
        group(tippee) == { r \in sel : r.tippee = tippee }
    IN { [ctime |-> MaxOf({ r.ctime : r \in group(tippee) }),
          mtime |-> Stamp(t),
          tipper |-> p1,
          tippee |-> tippee,
          amount |-> SumAmount(group(tippee))] : tippee \in { r.tippee : r \in sel } }

\* The rows CONSOLIDATE_TIPS_GIVING inserts.
CONSOLIDATE_TIPS_GIVING(t, ut, p1, p2, p3, p4, p5, p6) ==
    LET sel == { r \in ut : /\ (r.tipper = p2 \/ r.tipper = p3)
                            /\ ~(r.tipper = p4 /\ r.tippee = p5)
                            /\ ~(r.tippee = p6) }
        group(tippee) == { r \in sel : r.tippee = tippee }
    IN { [ctime |-> MinOf({ r.ctime : r \in group(tippee) }),
          mtime |-> Stamp(t),
          tipper |-> p1,
          tippee |-> tippee,
          amount |-> SumAmount(group(tippee))] : tippee \in { r.tippee : r \in sel } }

\* A zeroing without its WHERE clause: one row per tipper, whoever the tippee.
ZERO_OUT_OLD_TIPS_RECEIVING_Everyone(t, p1) ==
    LET byTipper == [k \in { r.tipper : r \in t } |->
                       { [ctime |-> r.ctime, mtime |-> Stamp(t), tipper |-> r.tipper,
                          tippee |-> r.tippee, amount |-> 0] : r \in { q \in t : q.tipper = k } }]
    IN OnePerKey(byTipper)

\* The sets of rows ZERO_OUT_OLD_TIPS_RECEIVING may insert: DISTINCT ON
\* (tipper) without ORDER BY keeps any one row of each tipper.
ZERO_OUT_OLD_TIPS_RECEIVING(t, p1) ==
    LET sel == { r \in t : r.tippee = p1 }
        byTipper == [k \in { r.tipper : r \in sel } |->
                       { [ctime |-> r.ctime, mtime |-> Stamp(t), tipper |-> r.tipper,
                          tippee |-> r.tippee, amount |-> 0] : r \in { q \in sel : q.tipper = k } }]
    IN OnePerKey(byTipper)

\* A zeroing that copies the amount of the row it kept.
ZERO_OUT_OLD_TIPS_GIVING_KeepsAmount(t, p1) ==
    LET sel == { r \in t : r.tipper = p1 }
        byTippee == [k \in { r.tippee : r \in sel } |->
                       { [ctime |-> r.ctime, mtime |-> Stamp(t), tipper |-> r.tipper,
                          tippee |-> r.tippee, amount |-> r.amount] :
                            r \in { q \in sel : q.tippee = k } }]
    IN OnePerKey(byTippee)

\* The sets of rows ZERO_OUT_OLD_TIPS_GIVING may insert.
ZERO_OUT_OLD_TIPS_GIVING(t, p1) ==
    LET sel == { r \in t : r.tipper = p1 }
        byTippee == [k \in { r.tippee : r \in sel } |->
                       { [ctime |-> r.ctime, mtime |-> Stamp(t), tipper |-> r.tipper,
                          tippee |-> r.tippee, amount |-> 0] : r \in { q \in sel : q.tippee = k } }]
    IN OnePerKey(byTippee)

\* The result of the first query: elsewhere JOIN participants for the account.
load_connection(ps, els, platform, user_id) ==
    { [participant |-> e.participant, is_stub |-> p.is_stub] :
        <<e, p>> \in { ep \in els \X ps :
                         /\ ep[1].participant = ep[2].username
                         /\ ep[1].platform = platform
                         /\ ep[1].user_id = user_id } }

\* A count that stops at the first account found.
count_elsewhere_AsFlag(els, username) ==
    IF \E e \in els : e.participant = username THEN 1 ELSE 0

\* SELECT count(*) FROM elsewhere WHERE participant = username
count_elsewhere(els, username) ==
    Cardinality({ e \in els : e.participant = username })

\* The count taken as a flag: 1 when there is any such account, else 0.
count_elsewhere_on_AsFlag(els, username, platform) ==
    IF \E e \in els : e.participant = username /\ e.platform = platform THEN 1 ELSE 0

\* SELECT count(*) FROM elsewhere WHERE participant = username AND platform = platform
count_elsewhere_on(els, username, platform) ==
    Cardinality({ e \in els : e.participant = username /\ e.platform = platform })

\* An update whose WHERE clause names the new owner instead of the old.
move_old_account_OfTheStub(els, new, platform, old) ==
    { IF e.platform = platform /\ e.participant = new
      THEN [e EXCEPT !.participant = new] ELSE e : e \in els }

\* UPDATE elsewhere SET participant = new WHERE platform = platform AND participant = old
move_old_account(els, new, platform, old) ==
    { IF e.platform = platform /\ e.participant = old
      THEN [e EXCEPT !.participant = new] ELSE e : e \in els }

\* An update whose WHERE clause matches the new owner's rows only.
do_the_deal_NoMatch(els, new, platform, user_id) ==
    { IF e.platform = platform /\ e.user_id = user_id /\ e.participant = new
      THEN [e EXCEPT !.participant = new] ELSE e : e \in els }

\* UPDATE elsewhere SET participant = new WHERE platform = platform AND user_id = user_id
do_the_deal(els, new, platform, user_id) ==
    { IF e.platform = platform /\ e.user_id = user_id
      THEN [e EXCEPT !.participant = new] ELSE e : e \in els }

\* The participants table is unique on username and on username_lower: would a
\* row holding name, other than the row called self, break that?
IntegrityError(ps, name, self) ==
    \E q \in ps : /\ q.username # self
                  /\ (q.username = name \/ q.username_lower = lower(name))

\* reserve_a_random_username: a new stub participant under an unused name.
reserve_a_random_username(ps, name) ==
    ps \cup { [username |-> name, username_lower |-> lower(name), is_stub |-> TRUE,
               session_token |-> "NULL", session_expires |-> "NULL"] }

\* UPDATE participants SET username, username_lower, session_token = NULL,
\* session_expires = now() WHERE username = other_username
archive_participant(ps, archive_username, other_username) ==
    { IF p.username = other_username
      THEN [p EXCEPT !.username = archive_username,
                     !.username_lower = lower(archive_username),
                     !.session_token = "NULL",
                     !.session_expires = "now"]
      ELSE p : p \in ps }

\* The references to participants(username) follow a renamed participant.
on_update_cascade_elsewhere(els, old, new) ==
    { IF e.participant = old THEN [e EXCEPT !.participant = new] ELSE e : e \in els }

on_update_cascade_tips(t, old, new) ==
    { [r EXCEPT !.tipper = IF r.tipper = old THEN new ELSE r.tipper,
                !.tippee = IF r.tippee = old THEN new ELSE r.tippee] : r \in t }

\* An insert with the two participants the wrong way round.
record_the_absorption_Swapped(abs, other_username, username, archive_username) ==
    Append(abs, [absorbed_was |-> username,
                 absorbed_by |-> other_username,
                 archived_as |-> archive_username])

\* INSERT INTO absorptions (absorbed_was, absorbed_by, archived_as)
record_the_absorption(abs, other_username, username, archive_username) ==
    Append(abs, [absorbed_was |-> other_username,
                 absorbed_by |-> username,
                 archived_as |-> archive_username])

\* ---------------------------------------------------------- the archive loop
\* for archive_username in gen_random_usernames(): try the UPDATE, continue on
\* IntegrityError, break on success.  cands is what the generator yields; the
\* result names the candidate accepted and how many were drawn.
RECURSIVE archive_loop(_, _, _, _)
archive_loop(ps, cands, i, other_username) ==
    IF i > Len(cands)
    THEN [done |-> FALSE, drawn |-> Len(cands), archive_username |-> NoName,
          participants |-> ps]
    ELSE IF IntegrityError(ps, cands[i], other_username)
         THEN archive_loop(ps, cands, i + 1, other_username)
         ELSE [done |-> TRUE, drawn |-> i, archive_username |-> cands[i],
               participants |-> archive_participant(ps, cands[i], other_username)]

\* What gen_random_usernames() may yield, up to MaxTries candidates.
gen_random_usernames ==
    UNION { [1..n -> RandomUsernames] : n \in 1..MaxTries }

\* ------------------------------------------------------------------- Init
\* The calls in flight, each inside its own `with gittip.db.get_cursor()`.
Cursors == 1..MaxCursors

NoStore == [participants |-> {}, elsewhere |-> {}, tips |-> {}, absorptions |-> << >>]

NoCursor ==
    [pc |-> "idle", outcome |-> "none", participant |-> NoName,
     have_confirmation |-> FALSE, other_username |-> NoName,
     other_is_a_real_participant |-> FALSE,
     this_is_others_last_account_elsewhere |-> FALSE,
     we_already_have_that_kind_of_account |-> FALSE,
     new_stub_username |-> NoName, archive_username |-> NoName, tried |-> << >>,
     raced |-> FALSE, base |-> NoStore, work |-> NoStore, end |-> NoStore]

Participant(name, stub) ==
    [username |-> name, username_lower |-> lower(name), is_stub |-> stub,
     session_token |-> IF stub THEN "NULL" ELSE "token",
     session_expires |-> IF stub THEN "NULL" ELSE "later"]

\* Tip histories of at most n rows, one row per instant; the rows of a pair
\* share the ctime of its first row.
RECURSIVE TipHistories(_)
TipHistories(n) ==
    IF n = 0 THEN { {} }
    ELSE LET shorter == TipHistories(n - 1)
         IN shorter \cup
            { t \cup { [ctime |-> IF \E r \in t : r.tipper = tipper /\ r.tippee = tippee
                                  THEN (CHOOSE r \in t : r.tipper = tipper /\ r.tippee = tippee).ctime
                                  ELSE Stamp(t),
                        mtime |-> Stamp(t), tipper |-> tipper, tippee |-> tippee,
                        amount |-> amount] } :
                <<t, tipper, tippee, amount>> \in
                    { q \in shorter \X InitialUsernames \X InitialUsernames \X (1..MaxAmount) :
                        /\ Cardinality(q[1]) = n - 1
                        /\ q[2] # q[3] } }

Account(platform, user_id) == [platform |-> platform, user_id |-> user_id]

NoCall ==
    [outcome |-> "none", participant |-> NoName,
     account_elsewhere |-> Account("", ""), have_confirmation |-> FALSE,
     other_username |-> NoName,
     other_is_a_real_participant |-> FALSE,
     this_is_others_last_account_elsewhere |-> FALSE,
     we_already_have_that_kind_of_account |-> FALSE,
     new_stub_username |-> NoName, archive_username |-> NoName, tried |-> << >>,
     consolidated_receiving |-> {}, consolidated_giving |-> {},
     zeroed_receiving |-> {}, zeroed_giving |-> {},
     pre |-> [participants |-> {}, elsewhere |-> {}, tips |-> {}, absorptions |-> << >>]]

Init ==
    /\ \E stubs \in { { <<"c">> }, { <<"B">>, <<"c">> } } :
          participants = { Participant(name, name \in stubs) : name \in InitialUsernames }
    /\ \E owner \in { <<"B">>, <<"c">>, NoName } :
          elsewhere = { [platform |-> "github", user_id |-> "1", participant |-> <<"a">>],
                        [platform |-> "github", user_id |-> "2", participant |-> <<"B">>] }
                      \cup (IF owner = NoName THEN {}
                            ELSE { [platform |-> "twitter", user_id |-> "1",
                                    participant |-> owner] })
    /\ tips \in TipHistories(MaxTips)
    /\ absorptions = << >>
    /\ call = NoCall
    /\ ncalls = 0
    /\ cursors = [t \in Cursors |-> NoCursor]
    /\ commits = << >>

\* --------------------------------------------------------------- take_over
Snapshot ==
    [participants |-> participants, elsewhere |-> elsewhere, tips |-> tips,
     absorptions |-> absorptions]

\* An exception that leaves the account already handed over.
Rollback_AfterTheDeal(outcome, participant, account_elsewhere, have_confirmation, other, a, b, c) ==
    /\ elsewhere' = do_the_deal(elsewhere, participant, account_elsewhere.platform,
                                account_elsewhere.user_id)
    /\ UNCHANGED << participants, tips, absorptions >>
    /\ call' = [NoCall EXCEPT !.outcome = outcome,
                              !.participant = participant,
                              !.account_elsewhere = account_elsewhere,
                              !.have_confirmation = have_confirmation,
                              !.other_username = other,
                              !.other_is_a_real_participant = a,
                              !.this_is_others_last_account_elsewhere = b,
                              !.we_already_have_that_kind_of_account = c,
                              !.pre = Snapshot]

\* The transaction is rolled back: an exception left the with block.
Rollback(outcome, participant, account_elsewhere, have_confirmation, other, a, b, c) ==
    /\ UNCHANGED << participants, elsewhere, tips, absorptions >>
    /\ call' = [NoCall EXCEPT !.outcome = outcome,
                              !.participant = participant,
                              !.account_elsewhere = account_elsewhere,
                              !.have_confirmation = have_confirmation,
                              !.other_username = other,
                              !.other_is_a_real_participant = a,
                              !.this_is_others_last_account_elsewhere = b,
                              !.we_already_have_that_kind_of_account = c,
                              !.pre = Snapshot]

take_over(participant, account_elsewhere, have_confirmation) ==
    LET platform == account_elsewhere.platform
        user_id == account_elsewhere.user_id
        recs == load_connection(participants, elsewhere, platform, user_id)
    IN
    /\ ncalls < MaxCalls
    /\ ncalls' = ncalls + 1
    /\ IF recs = {}
       THEN \* assert rec is not None
            Rollback("AssertionError", participant, account_elsewhere,
                     have_confirmation, NoName, FALSE, FALSE, FALSE)
       ELSE
       \E rec \in recs :
       LET other_username == rec.participant
           other_is_a_real_participant == ~rec.is_stub
           nelsewhere == count_elsewhere(elsewhere, other_username)
           this_is_others_last_account_elsewhere == nelsewhere = 1
           nparticipants == count_elsewhere_on(elsewhere, participant, platform)
           we_already_have_that_kind_of_account == nparticipants = 1
       IN
       IF ~(nelsewhere > 0) \/ ~(nparticipants \in {0, 1})
       THEN Rollback("AssertionError", participant, account_elsewhere,
                     have_confirmation, other_username,
                     other_is_a_real_participant, FALSE, FALSE)
       ELSE IF /\ NeedConfirmation(other_is_a_real_participant,
                                   this_is_others_last_account_elsewhere,
                                   we_already_have_that_kind_of_account)
               /\ ~have_confirmation
       THEN Rollback("NeedConfirmation", participant, account_elsewhere,
                     have_confirmation, other_username,
                     other_is_a_real_participant,
                     this_is_others_last_account_elsewhere,
                     we_already_have_that_kind_of_account)
       ELSE
       \* Move any old account out of the way.
       \E new_stub_username \in
            IF we_already_have_that_kind_of_account
            THEN { n \in RandomUsernames : ~IntegrityError(participants, n, NoName) }
            ELSE { NoName } :
       LET ps1 == IF we_already_have_that_kind_of_account
                  THEN reserve_a_random_username(participants, new_stub_username)
                  ELSE participants
           els1 == IF we_already_have_that_kind_of_account
                   THEN move_old_account(elsewhere, new_stub_username, platform, participant)
                   ELSE elsewhere
           \* Do the deal.
           els2 == do_the_deal(els1, participant, platform, user_id)
           done == [NoCall EXCEPT !.outcome = "ok",
                                  !.participant = participant,
                                  !.account_elsewhere = account_elsewhere,
                                  !.have_confirmation = have_confirmation,
                                  !.other_username = other_username,
                                  !.other_is_a_real_participant = other_is_a_real_participant,
                                  !.this_is_others_last_account_elsewhere =
                                        this_is_others_last_account_elsewhere,
                                  !.we_already_have_that_kind_of_account =
                                        we_already_have_that_kind_of_account,
                                  !.new_stub_username = new_stub_username,
                                  !.pre = Snapshot]
       IN
       IF ~this_is_others_last_account_elsewhere
       THEN /\ participants' = ps1
            /\ elsewhere' = els2
            /\ UNCHANGED << tips, absorptions >>
            /\ call' = done
       ELSE
       \* Fold the old participant into the new.
       LET x == participant
           y == other_username
       IN
       \E ut1 \in unique_tips(tips) :
       LET ins1 == CONSOLIDATE_TIPS_RECEIVING(tips, ut1, x, x, y, x, y, x)
           t1 == tips \cup ins1
       IN
       \E ut2 \in unique_tips(t1) :
       LET ins2 == CONSOLIDATE_TIPS_GIVING(t1, ut2, x, x, y, x, y, x)
           t2 == t1 \cup ins2
       IN
       \E ins3 \in ZERO_OUT_OLD_TIPS_RECEIVING(t2, other_username) :
       LET t3 == t2 \cup ins3
       IN
       \E ins4 \in ZERO_OUT_OLD_TIPS_GIVING(t3, other_username) :
       LET t4 == t3 \cup ins4
       IN
       \* Archive the old participant.
       \E cands \in gen_random_usernames :
       LET archived == archive_loop(ps1, cands, 1, other_username)
           archive_username == archived.archive_username
       IN
       /\ archived.done
       /\ archived.drawn = Len(cands)
       /\ participants' = archived.participants
       /\ elsewhere' = on_update_cascade_elsewhere(els2, other_username, archive_username)
       /\ tips' = on_update_cascade_tips(t4, other_username, archive_username)
       \* Record the absorption.
       /\ absorptions' = record_the_absorption(absorptions, other_username,
                                               participant, archive_username)
       /\ call' = [done EXCEPT !.archive_username = archive_username,
                               !.tried = cands,
                               !.consolidated_receiving = ins1,
                               !.consolidated_giving = ins2,
                               !.zeroed_receiving = ins3,
                               !.zeroed_giving = ins4]

\* Who can call take_over: a claimed participant that is signed in.
SignedIn(ps) == { p.username : p \in { q \in ps : ~q.is_stub /\ q.session_token # "NULL" } }

Next ==
    \E participant \in SignedIn(participants),
       account_elsewhere \in Accounts,
       have_confirmation \in BOOLEAN :
        /\ take_over(participant, account_elsewhere, have_confirmation)
        /\ UNCHANGED << cursors, commits >>

Spec == Init /\ [][Next]_vars

\* ------------------------------------------------- a store that is not sane
\* The store take_over's sanity checks are written for: github/2 may belong
\* to "a", who then holds two accounts on one platform.
InitCorrupted ==
    /\ \E stubs \in { { <<"c">> }, { <<"B">>, <<"c">> } } :
          participants = { Participant(name, name \in stubs) : name \in InitialUsernames }
    /\ \E second \in { <<"a">>, <<"B">> }, owner \in { <<"B">>, <<"c">>, NoName } :
          elsewhere = { [platform |-> "github", user_id |-> "1", participant |-> <<"a">>],
                        [platform |-> "github", user_id |-> "2", participant |-> second] }
                      \cup (IF owner = NoName THEN {}
                            ELSE { [platform |-> "twitter", user_id |-> "1",
                                    participant |-> owner] })
    /\ tips \in TipHistories(MaxTips)
    /\ absorptions = << >>
    /\ call = NoCall
    /\ ncalls = 0
    /\ cursors = [t \in Cursors |-> NoCursor]
    /\ commits = << >>

SpecCorrupted == InitCorrupted /\ [][Next]_vars

\* ------------------------------------------------ calls that run side by side
\* take_over statement by statement, for calls on one account that overlap.
\* The variables participants, elsewhere, tips and absorptions are what is
\* committed; a call's own writes are in its cursor's work until the with
\* block is left.  Every statement reads what is committed at that moment
\* next to the call's own writes.  "Do the deal" locks the account's row of
\* elsewhere until the call ends, so of the calls on one account one at a
\* time is past that statement; a call takes the lock with its first write.
Contested == Account("github", "2")

InFlight(c) == c.pc \in { "loaded", "linked", "tipped", "archived", "recorded" }
Writing(c) == c.pc \in { "linked", "tipped", "archived", "recorded" }

\* An exception leaves the with block: the cursor's writes are dropped.
cursor_rollback(c, outcome) ==
    [c EXCEPT !.pc = "failed", !.outcome = outcome,
              !.base = IF Writing(c) THEN c.base ELSE Snapshot,
              !.end = Snapshot]

\* Load the existing connection, compute the facts, raise NeedConfirmation.
cursor_load(t, participant, have_confirmation) ==
    LET c == cursors[t]
        platform == Contested.platform
        user_id == Contested.user_id
        recs == load_connection(participants, elsewhere, platform, user_id)
        asked == [c EXCEPT !.participant = participant,
                           !.have_confirmation = have_confirmation,
                           !.raced = \E u \in Cursors : InFlight(cursors[u])]
    IN
    /\ c.pc = "idle"
    /\ IF recs = {}
       THEN cursors' = [cursors EXCEPT ![t] = cursor_rollback(asked, "AssertionError")]
       ELSE
       \E rec \in recs :
       LET other_username == rec.participant
           other_is_a_real_participant == ~rec.is_stub
           nelsewhere == count_elsewhere(elsewhere, other_username)
           this_is_others_last_account_elsewhere == nelsewhere = 1
           nparticipants == count_elsewhere_on(elsewhere, participant, platform)
           we_already_have_that_kind_of_account == nparticipants = 1
           facts == [asked EXCEPT !.other_username = other_username,
                                  !.other_is_a_real_participant =
                                        other_is_a_real_participant,
                                  !.this_is_others_last_account_elsewhere =
                                        this_is_others_last_account_elsewhere,
                                  !.we_already_have_that_kind_of_account =
                                        we_already_have_that_kind_of_account]
       IN
       cursors' = [cursors EXCEPT ![t] =
           IF ~(nelsewhere > 0) \/ ~(nparticipants \in {0, 1})
           THEN cursor_rollback(facts, "AssertionError")
           ELSE IF /\ NeedConfirmation(other_is_a_real_participant,
                                       this_is_others_last_account_elsewhere,
                                       we_already_have_that_kind_of_account)
                   /\ ~have_confirmation
           THEN cursor_rollback(facts, "NeedConfirmation")
           ELSE [facts EXCEPT !.pc = "loaded"]]
    /\ UNCHANGED << participants, elsewhere, tips, absorptions, call, ncalls, commits >>

\* The account handed over by a statement that is committed at once.
cursor_do_the_deal_Autocommit(t) ==
    LET c == cursors[t]
        platform == Contested.platform
        user_id == Contested.user_id
    IN
    /\ c.pc = "loaded"
    /\ \A u \in Cursors : ~Writing(cursors[u])
    /\ \E new_stub_username \in
            IF c.we_already_have_that_kind_of_account
            THEN { n \in RandomUsernames : ~IntegrityError(participants, n, NoName) }
            ELSE { NoName } :
       LET ps1 == IF c.we_already_have_that_kind_of_account
                  THEN reserve_a_random_username(participants, new_stub_username)
                  ELSE participants
           els1 == IF c.we_already_have_that_kind_of_account
                   THEN move_old_account(elsewhere, new_stub_username, platform,
                                         c.participant)
                   ELSE elsewhere
           els2 == do_the_deal(els1, c.participant, platform, user_id)
       IN
       /\ cursors' = [cursors EXCEPT ![t] =
              [c EXCEPT !.pc = "linked",
                        !.new_stub_username = new_stub_username,
                        !.base = Snapshot,
                        !.work = [Snapshot EXCEPT !.participants = ps1,
                                                  !.elsewhere = els2]]]
       /\ participants' = ps1
       /\ elsewhere' = els2
    /\ UNCHANGED << tips, absorptions, call, ncalls, commits >>

\* Move any old account out of the way, then do the deal.  The participant
\* the account goes to must still be a row of participants.
cursor_do_the_deal(t) ==
    LET c == cursors[t]
        platform == Contested.platform
        user_id == Contested.user_id
    IN
    /\ c.pc = "loaded"
    /\ \A u \in Cursors : ~Writing(cursors[u])
    /\ IF c.participant \notin { p.username : p \in participants }
       THEN cursors' = [cursors EXCEPT ![t] = cursor_rollback(c, "IntegrityError")]
       ELSE
       \E new_stub_username \in
            IF c.we_already_have_that_kind_of_account
            THEN { n \in RandomUsernames : ~IntegrityError(participants, n, NoName) }
            ELSE { NoName } :
       LET ps1 == IF c.we_already_have_that_kind_of_account
                  THEN reserve_a_random_username(participants, new_stub_username)
                  ELSE participants
           els1 == IF c.we_already_have_that_kind_of_account
                   THEN move_old_account(elsewhere, new_stub_username, platform,
                                         c.participant)
                   ELSE elsewhere
           els2 == do_the_deal(els1, c.participant, platform, user_id)
       IN
       cursors' = [cursors EXCEPT ![t] =
           [c EXCEPT !.pc = "linked",
                     !.new_stub_username = new_stub_username,
                     !.base = Snapshot,
                     !.work = [Snapshot EXCEPT !.participants = ps1,
                                               !.elsewhere = els2]]]
    /\ UNCHANGED << participants, elsewhere, tips, absorptions, call, ncalls, commits >>

\* if this_is_others_last_account_elsewhere: take over tips.
cursor_take_over_tips(t) ==
    LET c == cursors[t]
        x == c.participant
        y == c.other_username
    IN
    /\ c.pc = "linked"
    /\ IF ~c.this_is_others_last_account_elsewhere
       THEN cursors' = [cursors EXCEPT ![t] = [c EXCEPT !.pc = "recorded"]]
       ELSE
       \E ut1 \in unique_tips(c.work.tips) :
       LET t1 == c.work.tips \cup CONSOLIDATE_TIPS_RECEIVING(c.work.tips, ut1, x, x, y, x, y, x)
       IN
       \E ut2 \in unique_tips(t1) :
       LET t2 == t1 \cup CONSOLIDATE_TIPS_GIVING(t1, ut2, x, x, y, x, y, x)
       IN
       \E ins3 \in ZERO_OUT_OLD_TIPS_RECEIVING(t2, y) :
       LET t3 == t2 \cup ins3
       IN
       \E ins4 \in ZERO_OUT_OLD_TIPS_GIVING(t3, y) :
       cursors' = [cursors EXCEPT ![t] =
           [c EXCEPT !.pc = "tipped", !.work = [c.work EXCEPT !.tips = t3 \cup ins4]]]
    /\ UNCHANGED << participants, elsewhere, tips, absorptions, call, ncalls, commits >>

\* One pass of the archive loop: the UPDATE with the next candidate.  A
\* collision is passed over; an UPDATE that matches no row returns nothing
\* and `assert rec is not None` fails.
cursor_archive(t) ==
    LET c == cursors[t]
        ps == c.work.participants
    IN
    /\ c.pc = "tipped"
    /\ \E archive_username \in RandomUsernames :
       IF c.other_username \notin { p.username : p \in ps }
       THEN cursors' = [cursors EXCEPT ![t] = cursor_rollback(c, "AssertionError")]
       ELSE IF IntegrityError(ps, archive_username, c.other_username)
       THEN /\ Len(c.tried) + 1 < MaxTries
            /\ cursors' = [cursors EXCEPT ![t] =
                   [c EXCEPT !.tried = Append(c.tried, archive_username)]]
       ELSE cursors' = [cursors EXCEPT ![t] =
                [c EXCEPT !.pc = "archived",
                          !.archive_username = archive_username,
                          !.tried = Append(c.tried, archive_username),
                          !.work = [c.work EXCEPT
                              !.participants =
                                  archive_participant(ps, archive_username,
                                                      c.other_username),
                              !.elsewhere =
                                  on_update_cascade_elsewhere(c.work.elsewhere,
                                      c.other_username, archive_username),
                              !.tips =
                                  on_update_cascade_tips(c.work.tips,
                                      c.other_username, archive_username)]]]
    /\ UNCHANGED << participants, elsewhere, tips, absorptions, call, ncalls, commits >>

\* Record the absorption.
cursor_record(t) ==
    LET c == cursors[t]
    IN
    /\ c.pc = "archived"
    /\ cursors' = [cursors EXCEPT ![t] =
           [c EXCEPT !.pc = "recorded",
                     !.work = [c.work EXCEPT !.absorptions =
                         record_the_absorption(c.work.absorptions, c.other_username,
                                               c.participant, c.archive_username)]]]
    /\ UNCHANGED << participants, elsewhere, tips, absorptions, call, ncalls, commits >>

\* The with block is left without an exception: the cursor's writes are
\* committed together.
cursor_commit(t) ==
    LET c == cursors[t]
    IN
    /\ c.pc = "recorded"
    /\ participants' = c.work.participants
    /\ elsewhere' = c.work.elsewhere
    /\ tips' = c.work.tips
    /\ absorptions' = c.work.absorptions
    /\ cursors' = [cursors EXCEPT ![t] =
           [c EXCEPT !.pc = "committed", !.outcome = "ok", !.end = c.work]]
    /\ commits' = Append(commits, t)
    /\ UNCHANGED << call, ncalls >>

\* Two signed-in participants, "t" who is signed out, and the stub "d", which
\* owns the contested github/2 and may own twitter/1 as well; "t" and "c" may
\* tip "d".
InitRace ==
    /\ participants = { Participant(<<"a">>, FALSE), Participant(<<"c">>, FALSE),
                        Participant(<<"d">>, TRUE),
                        [Participant(<<"t">>, FALSE) EXCEPT !.session_token = "NULL",
                                                            !.session_expires = "NULL"] }
    /\ \E owner \in { <<"c">>, <<"d">>, NoName } :
          elsewhere = { [platform |-> "github", user_id |-> "1", participant |-> <<"a">>],
                        [platform |-> "github", user_id |-> "2", participant |-> <<"d">>] }
                      \cup (IF owner = NoName THEN {}
                            ELSE { [platform |-> "twitter", user_id |-> "1",
                                    participant |-> owner] })
    /\ tips \in SUBSET { [ctime |-> 1, mtime |-> 1, tipper |-> <<"t">>,
                          tippee |-> <<"d">>, amount |-> MaxAmount],
                         [ctime |-> 2, mtime |-> 2, tipper |-> <<"c">>,
                          tippee |-> <<"d">>, amount |-> MaxAmount] }
    /\ absorptions = << >>
    /\ call = NoCall
    /\ ncalls = 0
    /\ cursors = [t \in Cursors |-> NoCursor]
    /\ commits = << >>

NextRace ==
    \E t \in Cursors :
        \/ \E participant \in SignedIn(participants), have_confirmation \in BOOLEAN :
              cursor_load(t, participant, have_confirmation)
        \/ cursor_do_the_deal(t)
        \/ cursor_take_over_tips(t)
        \/ cursor_archive(t)
        \/ cursor_record(t)
        \/ cursor_commit(t)

SpecRace == InitRace /\ [][NextRace]_vars

\* ================================================================ properties
\* The last call: its arguments, what it found and the store before it.
X == call.participant
Y == call.other_username
Before == call.pre
Called == call.outcome # "none"
Succeeded == call.outcome = "ok"
Merged == Succeeded /\ call.this_is_others_last_account_elsewhere

\* The username a participant of the store before the call goes by after it.
NameAfter(name) == IF Merged /\ name = Y THEN call.archive_username ELSE name

UsernamesOf(ps) == { p.username : p \in ps }

\* The current tip of a pair: its rows of the latest mtime.
CurrentRows(t, tipper, tippee) ==
    { r \in t : /\ r.tipper = tipper
                /\ r.tippee = tippee
                /\ \A s \in t : (s.tipper = tipper /\ s.tippee = tippee)
                                    => s.mtime <= r.mtime }

HasCurrent(t, tipper, tippee) == CurrentRows(t, tipper, tippee) # {}

CurrentAmount(t, tipper, tippee) ==
    IF HasCurrent(t, tipper, tippee)
    THEN (CHOOSE r \in CurrentRows(t, tipper, tippee) : TRUE).amount
    ELSE 0

\* The owners of the account before the call, and the three facts read off
\* the store before the call.
OwnersBefore ==
    { e.participant : e \in { f \in Before.elsewhere :
                                /\ f.platform = call.account_elsewhere.platform
                                /\ f.user_id = call.account_elsewhere.user_id } }

FactA == \E p \in Before.participants : p.username \in OwnersBefore /\ ~p.is_stub
FactB == \A o \in OwnersBefore :
            \A e \in Before.elsewhere :
                e.participant = o =>
                    /\ e.platform = call.account_elsewhere.platform
                    /\ e.user_id = call.account_elsewhere.user_id
FactC == \E e \in Before.elsewhere :
            e.participant = X /\ e.platform = call.account_elsewhere.platform

\* No pair of the tips table has two rows of the same mtime.
NoTies ==
    \A r, s \in tips :
        (r.tipper = s.tipper /\ r.tippee = s.tippee /\ r.mtime = s.mtime) => r = s

C2_ConfirmationAbortWritesNothing ==
    (call.outcome = "NeedConfirmation") =>
        /\ participants = Before.participants
        /\ elsewhere = Before.elsewhere
        /\ tips = Before.tips
        /\ absorptions = Before.absorptions

\* A call that ended with NeedConfirmation where proceeding would have moved
\* an old account out of the way and absorbed the other participant.
C2_Witness ==
    /\ call.outcome = "NeedConfirmation"
    /\ FactB /\ FactC
    /\ tips # {}

\* C3: when X absorbs another participant Y, for every third participant T
\* the current tip T->X afterwards is the sum of the current tips T->X and
\* T->Y before, and the current tip X->T afterwards is the sum of the current
\* tips X->T and Y->T before (no tip counts as 0).
C3_ConsolidationConservesAmounts ==
    (Merged /\ X # Y) =>
        \A T \in UsernamesOf(Before.participants) \ {X, Y} :
            /\ CurrentAmount(tips, T, X)
                  = CurrentAmount(Before.tips, T, X) + CurrentAmount(Before.tips, T, Y)
            /\ CurrentAmount(tips, X, T)
                  = CurrentAmount(Before.tips, X, T) + CurrentAmount(Before.tips, Y, T)

\* A merge in which a third participant tipped both X and Y.
C3_Witness ==
    /\ Merged /\ X # Y
    /\ \E T \in UsernamesOf(Before.participants) \ {X, Y} :
          /\ CurrentAmount(Before.tips, T, X) > 0
          /\ CurrentAmount(Before.tips, T, Y) > 0
          /\ CurrentAmount(tips, T, X) > CurrentAmount(Before.tips, T, X)

\* The rows the two consolidation statements of the last call inserted.
Consolidated == call.consolidated_receiving \cup call.consolidated_giving

\* C4: when X absorbs another participant Y, a current tip X->Y and a current
\* tip Y->X are both 0 afterwards, and neither amount is carried into a
\* consolidated tip: no consolidated row between the two carries an amount.
C4_TipsBetweenTheTwoAreZeroed ==
    (Merged /\ X # Y) =>
        /\ HasCurrent(Before.tips, X, Y)
              => CurrentAmount(tips, NameAfter(X), NameAfter(Y)) = 0
        /\ HasCurrent(Before.tips, Y, X)
              => CurrentAmount(tips, NameAfter(Y), NameAfter(X)) = 0
        /\ \A r \in Consolidated :
              ({r.tipper, r.tippee} = {X, Y}) => r.amount = 0

\* C5: after a merge, every participant that had a current tip to Y has a
\* current tip of 0 to Y, and every participant Y had a current tip to has a
\* current tip of 0 from Y.
C5_AbsorbedTipsAreZero ==
    Merged =>
        \A T \in UsernamesOf(Before.participants) :
            /\ HasCurrent(Before.tips, T, Y)
                  => /\ HasCurrent(tips, NameAfter(T), NameAfter(Y))
                     /\ CurrentAmount(tips, NameAfter(T), NameAfter(Y)) = 0
            /\ HasCurrent(Before.tips, Y, T)
                  => /\ HasCurrent(tips, NameAfter(Y), NameAfter(T))
                     /\ CurrentAmount(tips, NameAfter(Y), NameAfter(T)) = 0

\* A merge in which Y tipped X and somebody tipped Y.
C5_Witness ==
    /\ Merged
    /\ CurrentAmount(Before.tips, Y, X) > 0
    /\ \E T \in UsernamesOf(Before.participants) : CurrentAmount(Before.tips, T, Y) > 0

\* The ctimes of the current tips a consolidated row stands for: those between
\* its counterparty and X, and between its counterparty and Y.
SourceCtimes(r) ==
    IF r \in call.consolidated_receiving
    THEN { q.ctime : q \in CurrentRows(Before.tips, r.tipper, X)
                           \cup CurrentRows(Before.tips, r.tipper, Y) }
    ELSE { q.ctime : q \in CurrentRows(Before.tips, X, r.tippee)
                           \cup CurrentRows(Before.tips, Y, r.tippee) }

\* C6: every consolidated row take_over inserts has the least ctime among the
\* current rows it consolidates for its counterparty.
C6_ConsolidatedCtimeIsOldest ==
    Merged =>
        \A r \in Consolidated :
            /\ SourceCtimes(r) # {}
            /\ \A c \in SourceCtimes(r) : r.ctime <= c
            /\ r.ctime \in SourceCtimes(r)

\* A consolidated row made of two tips of different ctime.
C6_Witness ==
    /\ Merged
    /\ \E r \in call.consolidated_giving : Cardinality(SourceCtimes(r)) = 2

\* The candidates the archive loop drew before the one it accepted.
Skipped == { call.tried[i] : i \in 1..(Len(call.tried) - 1) }

Archived == { p \in participants : p.username = call.archive_username }

\* C7: after a merge Y goes by a username no participant held before the
\* call, with username_lower its lower-casing and no session token; nobody
\* holds Y's old username; and every candidate drawn before the accepted one
\* was taken by another participant.
C7_ArchivedUnderAFreshUsername ==
    Merged =>
        /\ call.archive_username \notin UsernamesOf(Before.participants)
        /\ Cardinality(Archived) = 1
        /\ \A p \in Archived : /\ p.username_lower = lower(p.username)
                               /\ p.session_token = "NULL"
        /\ Y \notin UsernamesOf(participants)
        /\ \A c \in Skipped :
              \E q \in Before.participants \cup participants :
                  /\ q.username # Y
                  /\ (q.username = c \/ q.username_lower = lower(c))

\* C8: a successful call in which B held appends exactly one absorption,
\* (Y's username before the call, X's username, the username Y is archived
\* under); a successful call in which B did not hold appends none; and no call
\* changes or removes an absorption already recorded.
C8_OneAbsorptionPerMerge ==
    /\ (Succeeded /\ FactB) =>
          /\ Len(absorptions) = Len(Before.absorptions) + 1
          /\ LET a == absorptions[Len(absorptions)]
             IN /\ {a.absorbed_was} = OwnersBefore
                /\ a.absorbed_by = X
                /\ a.archived_as = NameAfter(Y)
                /\ \E p \in participants :
                      p.username = a.archived_as /\ p.session_expires = "now"
    /\ (Succeeded /\ ~FactB) => absorptions = Before.absorptions
    /\ Called =>
          /\ Len(Before.absorptions) <= Len(absorptions)
          /\ SubSeq(absorptions, 1, Len(Before.absorptions)) = Before.absorptions

\* A merge recorded after an earlier one.
C8_Witness ==
    /\ Succeeded /\ FactB /\ X # Y
    /\ Len(absorptions) = 2

\* C9: after a call in which X absorbed another participant Y, a second
\* take_over with the same participant and account does not go through, and
\* leaves absorptions, participants and tips as they are.
C9_SecondTakeOverFails ==
    [][ ( /\ Merged /\ X # Y
          /\ ncalls' = ncalls + 1
          /\ call'.participant = X
          /\ call'.account_elsewhere = call.account_elsewhere )
        => ( /\ call'.outcome # "ok"
             /\ absorptions' = absorptions
             /\ participants' = participants
             /\ tips' = tips ) ]_vars

\* C10: every (platform, user_id) of the elsewhere table has one row, whose
\* participant is a row of participants; and after a successful take_over the
\* account belongs to the participant that took it over.
C10_OneOwnerPerAccount ==
    /\ \A e \in elsewhere :
          /\ Cardinality({ f \in elsewhere : /\ f.platform = e.platform
                                             /\ f.user_id = e.user_id }) = 1
          /\ Cardinality({ p \in participants : p.username = e.participant }) = 1
    /\ Succeeded =>
          \E e \in elsewhere : /\ e.platform = call.account_elsewhere.platform
                               /\ e.user_id = call.account_elsewhere.user_id
                               /\ e.participant = NameAfter(X)

\* A take-over that displaced X's old account and absorbed Y.
C10_Witness ==
    /\ Merged /\ X # Y /\ FactC
    /\ \E e \in elsewhere : e.participant = call.new_stub_username

\* The three sanity checks of take_over, read off the store before the call.
NoOwnerBefore == OwnersBefore = {}
OwnerHasNoAccountBefore ==
    \E o \in OwnersBefore : count_elsewhere(Before.elsewhere, o) = 0
TooManyOnPlatformBefore ==
    Cardinality({ e \in Before.elsewhere :
                    e.participant = X /\ e.platform = call.account_elsewhere.platform }) > 1

\* C11: take_over ends with AssertionError, and never with NeedConfirmation,
\* exactly when the account has no owner, its owner has no account at all, or
\* the calling participant already holds more than one account on the
\* platform; every table is then as it was before the call.
C11_SanityChecksAreFatal ==
    Called =>
        /\ (call.outcome = "AssertionError")
              <=> (NoOwnerBefore \/ OwnerHasNoAccountBefore \/ TooManyOnPlatformBefore)
        /\ (call.outcome = "AssertionError") =>
              /\ participants = Before.participants
              /\ elsewhere = Before.elsewhere
              /\ tips = Before.tips
              /\ absorptions = Before.absorptions

\* A confirmed call by a participant with two github accounts, on an account
\* of a real participant, that ended with AssertionError.
C11_Witness ==
    /\ call.outcome = "AssertionError"
    /\ TooManyOnPlatformBefore
    /\ ~NoOwnerBefore
    /\ FactA
    /\ tips # {}

\* A call on an account nobody owns that ended with AssertionError.
C11_WitnessNoOwner ==
    /\ call.outcome = "AssertionError"
    /\ NoOwnerBefore

\* The owner of the contested account in a store.
OwnerIn(store) ==
    { e.participant : e \in { f \in store.elsewhere :
                                f.platform = Contested.platform
                                /\ f.user_id = Contested.user_id } }

\* What a finished call leaves: the account with the caller (under the name
\* the caller goes by afterwards) and, when the call
\* took this for the other's last account, the other archived, its tips zero
\* and the absorption recorded; when not, tips and absorptions untouched.
Whole(c) ==
    /\ OwnerIn(c.end) = { IF c.this_is_others_last_account_elsewhere
                             /\ c.other_username = c.participant
                          THEN c.archive_username ELSE c.participant }
    /\ IF c.this_is_others_last_account_elsewhere
       THEN /\ Len(c.end.absorptions) = Len(c.base.absorptions) + 1
            /\ c.end.absorptions[Len(c.end.absorptions)] =
                  [absorbed_was |-> c.other_username,
                   absorbed_by |-> c.participant,
                   archived_as |-> c.archive_username]
            /\ \E p \in c.end.participants :
                  p.username = c.archive_username /\ p.session_expires = "now"
            /\ \A r \in c.end.tips :
                  (r.tipper = c.archive_username \/ r.tippee = c.archive_username)
                      => CurrentAmount(c.end.tips, r.tipper, r.tippee) = 0
       ELSE /\ c.end.tips = c.base.tips
            /\ c.end.absorptions = c.base.absorptions

\* C12: what is committed never shows part of a take_over: while a call is
\* between its first write and the end of its with block the committed tables
\* are as they were before that write, a call that failed left them as they
\* were, and after a commit they hold the whole take-over of the call that
\* committed last.
C12_NoPartialTakeOverIsVisible ==
    /\ \A t \in Cursors : Writing(cursors[t]) => Snapshot = cursors[t].base
    /\ \A t \in Cursors : cursors[t].pc = "failed" => cursors[t].end = cursors[t].base
    /\ commits # << >> =>
          LET c == cursors[commits[Len(commits)]]
          IN Snapshot = c.end /\ Whole(c)

\* A call that had handed the account over and zeroed tips in its cursor and
\* then failed in the archive loop, after the other call had committed.
C12_Witness ==
    \E t \in Cursors :
        /\ cursors[t].pc = "failed"
        /\ cursors[t].outcome = "AssertionError"
        /\ cursors[t].work.elsewhere # cursors[t].end.elsewhere
        /\ cursors[t].work.tips # cursors[t].end.tips
        /\ commits # << >>

\* The rows of elsewhere for the accounts X held on the platform before the call.
OldAccountsOfX ==
    { e \in elsewhere :
        \E f \in Before.elsewhere : /\ f.participant = X
                                    /\ f.platform = call.account_elsewhere.platform
                                    /\ f.platform = e.platform
                                    /\ f.user_id = e.user_id
                                    /\ f.user_id # call.account_elsewhere.user_id }

\* C13: the tips are taken over, Y is archived and the absorption is recorded
\* exactly when B holds.  When B does not hold, a successful call moves the
\* account (and X's old account on the platform to a new participant) and
\* leaves every row of tips, every participant there was (username and
\* session) and absorptions as they were.  When B holds, whether Y is a stub
\* or not, the tips to and from Y are zeroed and those of third participants
\* consolidated on X, Y is archived without a session, and one absorption is
\* appended.
C13_MergeOnlyForTheLastAccount ==
    Succeeded =>
        /\ \A e \in OldAccountsOfX :
              e.participant \notin UsernamesOf(Before.participants)
        /\ ~FactB =>
              /\ tips = Before.tips
              /\ absorptions = Before.absorptions
              /\ Before.participants \subseteq participants
              /\ \E e \in elsewhere : /\ e.platform = call.account_elsewhere.platform
                                      /\ e.user_id = call.account_elsewhere.user_id
                                      /\ e.participant = X
        /\ FactB =>
              /\ Len(absorptions) = Len(Before.absorptions) + 1
              /\ \E p \in participants : /\ p.username = NameAfter(Y)
                                         /\ p.session_token = "NULL"
                                         /\ p.session_expires = "now"
              /\ \A T \in UsernamesOf(Before.participants) :
                    /\ HasCurrent(Before.tips, T, Y)
                          => CurrentAmount(tips, NameAfter(T), NameAfter(Y)) = 0
                    /\ HasCurrent(Before.tips, Y, T)
                          => CurrentAmount(tips, NameAfter(Y), NameAfter(T)) = 0
              /\ X # Y =>
                    \A T \in UsernamesOf(Before.participants) \ {X, Y} :
                        CurrentAmount(tips, T, X)
                            = CurrentAmount(Before.tips, T, X)
                              + CurrentAmount(Before.tips, T, Y)

\* A confirmed call on one of the two accounts of a tipped participant, by a
\* participant whose own account on the platform was moved out of the way.
C13_Witness ==
    /\ Succeeded /\ ~FactB /\ FactC /\ X # Y
    /\ \E r \in Before.tips : r.tippee = Y /\ r.amount > 0
    /\ OldAccountsOfX # {}
    /\ elsewhere # Before.elsewhere

\* An unconfirmed call that absorbed a tipped stub.
C13_WitnessStub ==
    /\ Succeeded /\ FactB /\ ~FactA /\ X # Y
    /\ \E r \in Before.tips : r.tippee = Y /\ r.tipper # X /\ r.amount > 0

\* The accounts X held on the account's platform before the call.
AccountsOfXBefore ==
    { e \in Before.elsewhere :
        e.participant = X /\ e.platform = call.account_elsewhere.platform }

OwnerNow(platform, user_id) ==
    { e.participant : e \in { f \in elsewhere : f.platform = platform
                                                /\ f.user_id = user_id } }

\* C14: after a successful call in which C held, every account X held on the
\* platform before belongs to a stub that was no participant before the call,
\* and the account taken over belongs to X; after a successful call in which C
\* did not hold, no participant has been added and no account but the one
\* taken over has changed owner.
C14_OldAccountGoesToANewStub ==
    Succeeded =>
        /\ FactC =>
              /\ \A e \in AccountsOfXBefore :
                    \E p \in participants :
                        /\ OwnerNow(e.platform, e.user_id) = { p.username }
                        /\ p.is_stub
                        /\ p.username \notin UsernamesOf(Before.participants)
              /\ OwnerNow(call.account_elsewhere.platform,
                          call.account_elsewhere.user_id) = { NameAfter(X) }
        /\ ~FactC =>
              /\ Cardinality(participants) = Cardinality(Before.participants)
              /\ \A e \in Before.elsewhere :
                    (e.platform # call.account_elsewhere.platform
                       \/ e.user_id # call.account_elsewhere.user_id)
                        => OwnerNow(e.platform, e.user_id) = { NameAfter(e.participant) }

\* The same, for calls on an account that is not X's own.
C14_ForAnotherParticipantsAccount ==
    (X # Y) => C14_OldAccountGoesToANewStub

\* The rows of a tips table, with every username replaced by the one its
\* participant goes by after the call.
Renamed(t) ==
    { [r EXCEPT !.tipper = NameAfter(r.tipper), !.tippee = NameAfter(r.tippee)] : r \in t }

\* C17: a call only adds rows to tips.  Every row there was before is still
\* there with its ctime, mtime and amount, its tipper and tippee being the same
\* participants (under the username each goes by afterwards); and every row
\* added has X or Y as its tipper or its tippee.
C17_TipsAreAppendOnly ==
    Called =>
        /\ Renamed(Before.tips) \subseteq tips
        /\ Cardinality(Renamed(Before.tips)) = Cardinality(Before.tips)
        /\ \A r \in tips \ Renamed(Before.tips) :
              {r.tipper, r.tippee} \cap {NameAfter(X), NameAfter(Y)} # {}

\* A merge that added rows while a tip between two other participants was
\* there.
C17_Witness ==
    /\ Merged /\ X # Y
    /\ tips \ Renamed(Before.tips) # {}
    /\ \E r \in Before.tips : {r.tipper, r.tippee} \cap {X, Y} = {}

\* Two calls by different participants that were in flight together.
Overlapped(t, u) ==
    /\ t # u
    /\ cursors[t].participant # cursors[u].participant
    /\ cursors[t].raced \/ cursors[u].raced

\* The username the caller of a finished call goes by after it.
CallerAfter(c) ==
    IF c.this_is_others_last_account_elsewhere /\ c.other_username = c.participant
    THEN c.archive_username ELSE c.participant

\* C15: when two calls on the same account by different participants were in
\* flight together and both committed, the account belongs to the participant
\* of the call that committed last.
C15_LastCommitterOwnsTheAccount ==
    \A t, u \in Cursors :
        ( /\ Overlapped(t, u)
          /\ cursors[t].pc = "committed"
          /\ cursors[u].pc = "committed" )
        => OwnerIn(Snapshot) = { CallerAfter(cursors[commits[Len(commits)]]) }

\* Two calls that read the same owner of the account before either had
\* written, and both committed: neither kept the other out.
C15_Witness ==
    \E t, u \in Cursors :
        /\ Overlapped(t, u)
        /\ cursors[t].pc = "committed"
        /\ cursors[u].pc = "committed"
        /\ cursors[t].other_username = cursors[u].other_username
        /\ commits = << t, u >>
        /\ OwnerIn(Snapshot) = { cursors[u].participant }

\* Is the candidate the username, in either spelling, of a participant of the
\* call's cursor other than the one called self?
HeldByAnother(c, candidate, self) ==
    \E q \in c.work.participants :
        /\ q.username # self
        /\ (q.username = candidate \/ q.username_lower = lower(candidate))

PastTheArchiveLoop(c) == c.pc \in { "archived", "recorded", "committed" }

FailedInTheArchiveLoop(c) ==
    /\ c.pc = "failed"
    /\ c.outcome = "AssertionError"
    /\ c.work # NoStore

\* The archive loop of every call, own being whether Y's own username counts
\* as a username that is held: candidates are passed over only when held by
\* another participant, the loop stops at the first candidate that is not
\* held, Y then goes by it and has no session, and a call whose UPDATE failed
\* otherwise has committed nothing.
ArchiveLoop(own) ==
    \A t \in Cursors :
        LET c == cursors[t]
            n == Len(c.tried)
        IN
        /\ c.pc = "tipped" =>
              \A i \in 1..n : HeldByAnother(c, c.tried[i], c.other_username)
        /\ PastTheArchiveLoop(c) /\ c.this_is_others_last_account_elsewhere =>
              /\ n > 0
              /\ c.archive_username = c.tried[n]
              /\ \A i \in 1..(n - 1) : HeldByAnother(c, c.tried[i], c.archive_username)
              /\ ~HeldByAnother(c, c.archive_username, c.archive_username)
              /\ own => /\ lower(c.archive_username) # lower(c.other_username)
                        /\ c.other_username \notin UsernamesOf(c.work.participants)
              /\ \E p \in c.work.participants :
                    /\ p.username = c.archive_username
                    /\ p.username_lower = lower(c.archive_username)
                    /\ p.session_token = "NULL"
        /\ FailedInTheArchiveLoop(c) =>
              /\ c.end = c.base
              /\ c.archive_username = NoName
              /\ c.other_username \notin UsernamesOf(c.work.participants)

\* C16: the archive loop passes over exactly the candidates that are held,
\* stops at the first candidate no participant holds, with Y renamed to it and
\* signed out, and a rename that fails for another reason than a collision
\* ends the whole call with nothing committed.
C16_ArchiveLoopStopsAtTheFirstFreeUsername == ArchiveLoop(TRUE)

\* The same, counting only usernames held by participants other than Y.
C16_ExceptForTheOwnUsername == ArchiveLoop(FALSE)

\* How many accounts a participant has on a platform.
AccountsOn(els, username, platform) ==
    Cardinality({ e \in els : e.participant = username /\ e.platform = platform })

\* C18: no participant, new stubs included, ever has more than one account on
\* a platform, so no call fails the check that X has 0 or 1 account on the
\* platform; and after a successful call X has exactly one account on the
\* platform of the account it took over.
C18_OneAccountPerPlatform ==
    /\ \A p \in participants, platform \in Platforms :
          AccountsOn(elsewhere, p.username, platform) <= 1
    /\ Called => ~TooManyOnPlatformBefore
    /\ (call.outcome = "AssertionError") => NoOwnerBefore
    /\ Succeeded =>
          AccountsOn(elsewhere, NameAfter(X), call.account_elsewhere.platform) = 1

\* A second successful call by a participant that had an account on the
\* platform, which went to a new stub.
C18_Witness ==
    /\ Succeeded /\ FactC /\ ncalls = 2
    /\ \E p \in participants :
          /\ p.username = call.new_stub_username
          /\ AccountsOn(elsewhere, p.username, call.account_elsewhere.platform) = 1

\* The usernames the absorptions of a sequence name as archived_as.
ArchivedAs(abs) == { abs[i].archived_as : i \in 1..Len(abs) }

\* archived_as of the absorptions in which one participant absorbed another.
ArchivedAsOfOthers(abs) ==
    { abs[i].archived_as : i \in { j \in 1..Len(abs) :
                                     abs[j].absorbed_was # abs[j].absorbed_by } }

\* After X absorbed another participant Y, Y has no account and no account
\* refers to Y's old username.
ArchivedHasNoAccount ==
    (Merged /\ X # Y) =>
        \A e \in elsewhere : e.participant # NameAfter(Y) /\ e.participant # Y

\* C19: after X absorbed another participant Y, Y has no account and no
\* account refers to Y's old username; so a participant that an absorption
\* names as archived_as never has an account, and is never the owner of the
\* account of a later call.
C19_ArchivedParticipantsOwnNothing ==
    /\ ArchivedHasNoAccount
    /\ \A e \in elsewhere : e.participant \notin ArchivedAs(absorptions)
    /\ Called => Y \notin ArchivedAs(Before.absorptions)

\* The same for the absorptions of one participant by another.
C19_ForAbsorptionsOfOthers ==
    /\ ArchivedHasNoAccount
    /\ \A e \in elsewhere : e.participant \notin ArchivedAsOfOthers(absorptions)
    /\ Called => Y \notin ArchivedAsOfOthers(Before.absorptions)

\* Two calls by different participants that both found u the owner of the
\* account, with the account its last, while in flight together.
BothTookTheLastAccountOf(t1, t2, u) ==
    /\ Overlapped(t1, t2)
    /\ cursors[t1].other_username = u
    /\ cursors[t2].other_username = u
    /\ cursors[t1].this_is_others_last_account_elsewhere
    /\ cursors[t2].this_is_others_last_account_elsewhere
    /\ InFlight(cursors[t1]) \/ cursors[t1].pc \in { "committed", "failed" }
    /\ InFlight(cursors[t2]) \/ cursors[t2].pc \in { "committed", "failed" }

AbsorptionsOf(u) ==
    { i \in 1..Len(absorptions) : absorptions[i].absorbed_was = u }

\* What the tips of third participants to x have grown by since the store st.
GainedSince(st, x) ==
    LET T == UsernamesOf(st.participants) \ { x }
    IN [k \in T |-> CurrentAmount(tips, k, x) - CurrentAmount(st.tips, k, x)]

\* Of two overlapping calls on the last account of u, at most one absorbed u.
AbsorbedOnce(t1, t2, u) ==
    /\ Cardinality(AbsorptionsOf(u)) <= 1
    /\ (cursors[t1].pc = "committed" /\ cursors[t2].pc = "committed" /\ commits # << >>) =>
          LET st == cursors[commits[1]].base
              x1 == cursors[t1].participant
              x2 == cursors[t2].participant
          IN \A k \in UsernamesOf(st.participants) \ { x1, x2, u } :
                GainedSince(st, x1)[k] + GainedSince(st, x2)[k]
                    <= CurrentAmount(st.tips, k, u)

\* C20: when two calls by different participants, in flight together, both
\* take the last account of the same participant Y, at most one absorption
\* with Y as absorbed_was is committed, and what a third participant tipped Y
\* is added to its tip to at most one of the two callers.
C20_AbsorbedAtMostOnce ==
    \A t1, t2 \in Cursors, u \in UsernamesOf(participants) \cup RandomUsernames :
        BothTookTheLastAccountOf(t1, t2, u) => AbsorbedOnce(t1, t2, u)

\* The same, as long as nobody holds Y's old username when the later call
\* reaches its archive loop: the earlier call did not archive Y under its own
\* username, and no call's new stub got it.
C20_UnlessTheUsernameIsHeldAgain ==
    \A t1, t2 \in Cursors, u \in UsernamesOf(participants) \cup RandomUsernames :
        ( /\ BothTookTheLastAccountOf(t1, t2, u)
          /\ \A t \in Cursors : /\ cursors[t].archive_username # u
                                /\ cursors[t].new_stub_username # u )
        => AbsorbedOnce(t1, t2, u)

====
